---- MODULE Spec2Model ----
(***************************************************************************)
(* CDT-plusplus: construction of 3D spherical simplicial complexes         *)
(* (spherical_3_complex.h) and the driver main (cdt.cpp).                  *)
(*                                                                         *)
(* The mesh S3 is a CGAL Delaunay_triangulation_3.  It is modelled by its  *)
(* finite vertices, its finite cells (sets of four vertices) and the       *)
(* per-vertex info() slot.  The infinite cells are the cells over the      *)
(* facets of the convex hull; they are derived from the finite cells.      *)
(* Coordinates are exact integers in units of 1/Scale.                     *)
(***************************************************************************)
EXTENDS Integers, FiniteSets, Sequences, TLC

\* Grid resolution: a coordinate x of the program is the integer x * Scale.
Scale == 4
\* How many of the points of SamplePool the random generator may yield.
NumSamples == 7
\* Largest number_of_simplices / number_of_timeslices passed to a routine.
MaxSimplices == 4
MaxTimeslices == 2
\* Largest dimension and |alpha| (in tenths) given on the command line.
MaxDim == 4
MaxAlpha == 12

\* ------------------------------------------------------------ geometry

Pt(x, y, z) == <<x * Scale, y * Scale, z * Scale>>

Sub(a, b) == <<a[1] - b[1], a[2] - b[2], a[3] - b[3]>>

Norm2(a) == a[1] * a[1] + a[2] * a[2] + a[3] * a[3]

Det3(a, b, c) ==
    a[1] * (b[2] * c[3] - b[3] * c[2])
  - a[2] * (b[1] * c[3] - b[3] * c[1])
  + a[3] * (b[1] * c[2] - b[2] * c[1])

Sign(n) == IF n > 0 THEN 1 ELSE IF n < 0 THEN -1 ELSE 0

\* orientation(a, b, c, d) of the kernel: the sign of det(b-a, c-a, d-a).
Orientation(a, b, c, d) == Sign(Det3(Sub(b, a), Sub(c, a), Sub(d, a)))

\* The 4x4 in-sphere determinant of a, b, c, d relative to p (rows q - p,
\* |q - p|^2), expanded along the column of squared lengths and signed so that
\* it is positive inside the sphere of a positively oriented a, b, c, d.
SphereDet(a, b, c, d, p) ==
    LET va == Sub(a, p)
        vb == Sub(b, p)
        vc == Sub(c, p)
        vd == Sub(d, p)
    IN    Norm2(va) * Det3(vb, vc, vd)
        - Norm2(vb) * Det3(va, vc, vd)
        + Norm2(vc) * Det3(va, vb, vd)
        - Norm2(vd) * Det3(va, vb, vc)

\* The four vertices of a cell in some fixed order.
RECURSIVE AsSeq(_)
AsSeq(S) ==
    IF S = {} THEN <<>>
    ELSE LET x == CHOOSE y \in S : TRUE IN <<x>> \o AsSeq(S \ {x})

\* side_of_sphere for a finite cell: 1 when p is strictly inside the sphere
\* through the cell's vertices, -1 strictly outside, 0 on it.  The product
\* with the orientation does not depend on the order of the vertices.
SideOfSphere(c, p) ==
    LET s == AsSeq(c)
    IN  Sign(SphereDet(s[1], s[2], s[3], s[4], p))
          * Orientation(s[1], s[2], s[3], s[4])

\* A cell of dimension 3 has four affinely independent vertices.
IsCell(c) ==
    /\ Cardinality(c) = 4
    /\ LET s == AsSeq(c) IN Orientation(s[1], s[2], s[3], s[4]) # 0

FacetsOf(c) == {c \ {v} : v \in c}

\* ---------------------------------------------------------------- mesh

AllFacets(C) == UNION {FacetsOf(c) : c \in C}

\* The facets of the convex hull: those with one finite cell only.  Over each
\* of them lies one infinite cell.
HullFacets(C) ==
    {f \in AllFacets(C) : Cardinality({c \in C : f \subseteq c}) = 1}

\* side_of_sphere for the infinite cell over hull facet f: p conflicts when it
\* lies strictly beyond the facet's plane, or in the plane and strictly inside
\* the facet's circumscribed circle (which is where that plane cuts the sphere
\* of the finite cell behind f).
InfiniteConflict(C, f, p) ==
    LET c == CHOOSE d \in C : f \subseteq d
        o == CHOOSE v \in c : v \notin f
        s == AsSeq(f)
        side == Orientation(s[1], s[2], s[3], p)
                  * Orientation(s[1], s[2], s[3], o)
    IN  IF side < 0 THEN TRUE
        ELSE IF side = 0 THEN SideOfSphere(c, p) > 0
        ELSE FALSE

\* find_conflicts(p, c, facet, cells): the cells in conflict with p, finite
\* ones as cells and infinite ones as the hull facet they lie over.
find_conflicts(C, p) ==
    [fin |-> {c \in C : SideOfSphere(c, p) > 0},
     inf |-> {f \in HullFacets(C) : InfiniteConflict(C, f, p)}]

\* V.size()
ConflictSize(conf) == Cardinality(conf.fin) + Cardinality(conf.inf)

\* The finite facets on the boundary of the hole: exactly one of the two
\* cells they separate is in conflict.
HoleBoundary(conf) ==
    {f \in AllFacets(conf.fin) \cup conf.inf :
        Cardinality({c \in conf.fin : f \subseteq c})
          + (IF f \in conf.inf THEN 1 ELSE 0) = 1}

\* insert_in_hole(p, cells...): the conflict cells are deleted and p is joined
\* to every facet of the hole's boundary.
insert_in_hole(C, conf, p) ==
    (C \ conf.fin) \cup {f \cup {p} : f \in HoleBoundary(conf)}

\* dimension(): 3 with a cell, else one less than the number of (affinely
\* independent) points, -1 for the empty triangulation.
dimension(V, C) ==
    IF C # {} THEN 3
    ELSE IF Cardinality(V) <= 3 THEN Cardinality(V) - 1 ELSE 2

\* Delaunay_triangulation_3::insert(p): nothing for an existing vertex; the
\* fourth affinely independent point makes the first cell; in dimension 3
\* locate, find_conflicts and insert_in_hole.
insert(V, C, p) ==
    IF p \in V THEN [vertices |-> V, cells |-> C]
    ELSE IF C = {}
         THEN [vertices |-> V \cup {p},
               cells |-> IF Cardinality(V) = 3 /\ IsCell(V \cup {p})
                         THEN {V \cup {p}} ELSE {}]
    ELSE [vertices |-> V \cup {p},
          cells |-> insert_in_hole(C, find_conflicts(C, p), p)]

\* is_valid(): cells are non-degenerate and use the vertices, no facet has
\* more than two cells, and no vertex is strictly inside a cell's sphere.
is_valid(V, C) ==
    /\ \A c \in C : c \subseteq V /\ IsCell(c)
    /\ C # {} => V = UNION C
    /\ \A f \in AllFacets(C) : Cardinality({c \in C : f \subseteq c}) <= 2
    /\ \A c \in C : \A v \in V : SideOfSphere(c, v) <= 0

number_of_finite_cells(C) == Cardinality(C)

number_of_vertices(V) == Cardinality(V)

\* Finite edges: the pairs of vertices of a common cell.
FiniteEdges(C) == UNION {{e \in SUBSET c : Cardinality(e) = 2} : c \in C}

number_of_finite_edges(C) == Cardinality(FiniteEdges(C))

\* ---------------------------------------------------------------- state

VARIABLES
    pc,                   \* position in the routine that runs
    vertices,             \* finite vertices of the triangulation
    cells,                \* finite cells of the triangulation
    info,                 \* vertex -> info(), defined where it was assigned
    number_of_simplices,  \* argument of the construction routines
    number_of_timeslices, \* argument of the construction routines
    ndebug,               \* TRUE when built with NDEBUG (assert compiled out)
    i,                    \* number of seed points inserted so far
    p,                    \* the point sampled in this iteration of the loop
    lt,                   \* Locate_type that locate reported for p
    V,                    \* the conflict cells find_conflicts reported for p
    calls,                \* triangulation calls made in this iteration
    before,               \* the mesh when this iteration began
    topology,             \* main: topology_type chosen on the command line
    dimensions,           \* main: -d
    alpha,                \* main: -a, in units of 1/AlphaUnit
    rc,                   \* main: its return value, NotReturned until it returns
    steps,                \* main: the steps executed so far, in order
    out                   \* main: the diagnostics printed so far

mesh == <<vertices, cells, info>>
args == <<number_of_simplices, number_of_timeslices, ndebug>>
loop == <<p, lt, V, calls, before>>
mainvars == <<topology, dimensions, alpha, rc, steps, out>>
vars == <<pc, mesh, args, i, loop, mainvars>>

NoPoint == <<>>
NoConflicts == [fin |-> {}, inf |-> {}]
EmptyMesh == [vertices |-> {}, cells |-> {}, info |-> <<>>]
NotReturned == -1

\* The variables of the routines that do not run.
MeshIdle ==
    /\ vertices = {} /\ cells = {} /\ info = <<>>
LoopIdle ==
    /\ p = NoPoint /\ lt = "none" /\ V = NoConflicts /\ calls = {}
    /\ before = EmptyMesh
MainIdle ==
    /\ topology = "none" /\ dimensions = 0 /\ alpha = 0
    /\ rc = NotReturned /\ steps = <<>> /\ out = {}

\* ------------------------------------- make_random_S3_simplicial_complex

\* Seed simplex of 1 cell, 4 vertices, 6 edges, and 4 faces.
RandomSeed == <<Pt(0, 0, 0), Pt(1, 0, 0), Pt(0, 1, 0), Pt(0, 0, 1)>>

\* Points the generator rnd can yield, in grid units: the origin, which the
\* seed already holds, and points in general position.
SamplePool ==
    << <<0, 0, 0>>, <<-2, -1, 1>>, <<-1, 0, -1>>, <<0, 1, -3>>, <<-2, 3, 0>>,
       <<1, 0, -2>>, <<2, -1, 2>>, <<-1, -2, 2>> >>

\* Random_points_in_sphere_3: points of the open ball of radius 1.
Samples ==
    {q \in {SamplePool[k] : k \in 1..NumSamples} : Norm2(q) < Scale * Scale}

\* The loop left one cell short of the target.
M_LoopCondition(C, n) ==
    IF n < 0 THEN TRUE ELSE number_of_finite_cells(C) + 1 < n

\* S3->number_of_finite_cells() < number_of_simplices: the int is converted to
\* the unsigned size_type, so a negative target is larger than any count.
LoopCondition(C, n) == IF n < 0 THEN TRUE ELSE number_of_finite_cells(C) < n

\* The parity test inverted.
M_EvenConflicts(conf) == ConflictSize(conf) % 2 = 1

\* (V.size() & 1) == 0
EvenConflicts(conf) == ConflictSize(conf) % 2 = 0

\* assert(e): aborts unless NDEBUG is defined.
AssertPasses(e) == ndebug \/ e

\* A locate that never reports VERTEX.
M_locate(Vs, q) == "NOT_VERTEX"

\* S3->locate(p, lt, li, lj): VERTEX when p is a vertex of the triangulation;
\* the other locate types are not told apart by the caller.
locate(Vs, q) == IF q \in Vs THEN "VERTEX" ELSE "NOT_VERTEX"

InitRandom ==
    /\ pc = "rnd_seed"
    /\ MeshIdle /\ LoopIdle /\ MainIdle
    /\ i = 0
    /\ number_of_simplices \in -1..MaxSimplices
    /\ number_of_timeslices \in 1..MaxTimeslices
    /\ ndebug \in BOOLEAN

\* S3->insert(seed point), four times.
RandomSeedInsert ==
    /\ pc = "rnd_seed"
    /\ LET m == insert(vertices, cells, RandomSeed[i + 1])
       IN  /\ vertices' = m.vertices
           /\ cells' = m.cells
    /\ i' = i + 1
    /\ pc' = IF i + 1 = Len(RandomSeed) THEN "rnd_assert_seed" ELSE "rnd_seed"
    /\ UNCHANGED <<info, args, loop, mainvars>>

\* assert(S3->dimension() == 3); print_results(S3);
RandomAssertSeed ==
    /\ pc = "rnd_assert_seed"
    /\ pc' = IF AssertPasses(dimension(vertices, cells) = 3)
             THEN "rnd_sample" ELSE "aborted"
    /\ UNCHANGED <<mesh, args, i, loop, mainvars>>

\* Delaunay::Point p = *rnd++;
RandomSample ==
    /\ pc = "rnd_sample"
    /\ \E q \in Samples : p' = q
    /\ lt' = "none" /\ V' = NoConflicts /\ calls' = {}
    /\ before' = [vertices |-> vertices, cells |-> cells, info |-> info]
    /\ pc' = "rnd_locate"
    /\ UNCHANGED <<mesh, args, i, mainvars>>

\* c = S3->locate(p, lt, li, lj); if (lt == VERTEX) continue;
RandomLocate ==
    /\ pc = "rnd_locate"
    /\ lt' = locate(vertices, p)
    /\ calls' = calls \cup {"locate"}
    /\ pc' = IF lt' = "VERTEX" THEN "rnd_while" ELSE "rnd_find_conflicts"
    /\ UNCHANGED <<mesh, args, i, p, V, before, mainvars>>

\* S3->find_conflicts(p, c, facet, back_inserter(V));
RandomFindConflicts ==
    /\ pc = "rnd_find_conflicts"
    /\ V' = find_conflicts(cells, p)
    /\ calls' = calls \cup {"find_conflicts"}
    /\ pc' = "rnd_filter"
    /\ UNCHANGED <<mesh, args, i, p, lt, before, mainvars>>

\* if ((V.size() & 1) == 0) S3->insert_in_hole(p, V.begin(), V.end(), ...);
RandomFilter ==
    /\ pc = "rnd_filter"
    /\ IF EvenConflicts(V)
       THEN /\ cells' = insert_in_hole(cells, V, p)
            /\ vertices' = vertices \cup {p}
            /\ calls' = calls \cup {"insert_in_hole"}
       ELSE UNCHANGED <<vertices, cells, calls>>
    /\ pc' = "rnd_while"
    /\ UNCHANGED <<info, args, i, p, lt, V, before, mainvars>>

\* } while (S3->number_of_finite_cells() < number_of_simplices);
RandomWhile ==
    /\ pc = "rnd_while"
    /\ pc' = IF LoopCondition(cells, number_of_simplices)
             THEN "rnd_sample" ELSE "rnd_assert_final"
    /\ UNCHANGED <<mesh, args, i, loop, mainvars>>

\* assert(S3->dimension() == 3); assert(S3->is_valid());
RandomAssertFinal ==
    /\ pc = "rnd_assert_final"
    /\ pc' = IF /\ AssertPasses(dimension(vertices, cells) = 3)
                /\ AssertPasses(is_valid(vertices, cells))
             THEN "rnd_done" ELSE "aborted"
    /\ UNCHANGED <<mesh, args, i, loop, mainvars>>

NextRandom ==
    \/ RandomSeedInsert
    \/ RandomAssertSeed
    \/ RandomSample
    \/ RandomLocate
    \/ RandomFindConflicts
    \/ RandomFilter
    \/ RandomWhile
    \/ RandomAssertFinal

SpecRandom == InitRandom /\ [][NextRandom]_vars

\* Every step of the routine is taken as long as one is possible.
FairSpecRandom == SpecRandom /\ WF_vars(NextRandom)

\* ------------------------------------------- make_S3_simplicial_complex

\* The five points of the seed, then the point of the "2-6 move".
SeededPoints == <<Pt(0, 0, 1), Pt(2, 0, 1), Pt(0, 2, 1), Pt(0, 0, 2), Pt(0, 0, 0)>>
ApexPoint == Pt(1, 1, 1)

\* (int) CGAL::to_double(z): the conversion to int truncates toward zero.
ToInt(num, den) ==
    IF num >= 0 THEN num \div den ELSE -((-num) \div den)

\* The label taken from the x coordinate.
M_Timeslice(v) == ToInt(v[1], Scale)

\* int timeslice = (int) CGAL::to_double(vit->point().z());
Timeslice(v) == ToInt(v[3], Scale)

InitSeeded ==
    /\ pc = "s3_divide"
    /\ MeshIdle /\ LoopIdle /\ MainIdle
    /\ i = 0
    /\ number_of_simplices \in -1..MaxSimplices
    /\ number_of_timeslices \in 0..MaxTimeslices
    /\ ndebug \in BOOLEAN

\* int simplices_per_timeslice = number_of_simplices / number_of_timeslices;
\* The quotient is never used.  Division by zero is undefined: the build may
\* trap on it or may have dropped the unused division.
SeededDivide ==
    /\ pc = "s3_divide"
    /\ pc' \in (IF number_of_timeslices = 0 THEN {"crashed", "s3_seed"}
                ELSE {"s3_seed"})
    /\ UNCHANGED <<mesh, args, i, loop, mainvars>>

\* S3->insert(seed point), five times.
SeededInsert ==
    /\ pc = "s3_seed"
    /\ LET m == insert(vertices, cells, SeededPoints[i + 1])
       IN  /\ vertices' = m.vertices
           /\ cells' = m.cells
    /\ i' = i + 1
    /\ pc' = IF i + 1 = Len(SeededPoints) THEN "s3_assert_seed" ELSE "s3_seed"
    /\ UNCHANGED <<info, args, loop, mainvars>>

\* assert(S3->dimension() == 3); print_results(S3);
SeededAssertSeed ==
    /\ pc = "s3_assert_seed"
    /\ pc' = IF AssertPasses(dimension(vertices, cells) = 3)
             THEN "s3_apex" ELSE "aborted"
    /\ UNCHANGED <<mesh, args, i, loop, mainvars>>

\* S3->insert(typename T::Point(1, 1, 1));
SeededApex ==
    /\ pc = "s3_apex"
    /\ LET m == insert(vertices, cells, ApexPoint)
       IN  /\ vertices' = m.vertices
           /\ cells' = m.cells
    /\ i' = i + 1
    /\ pc' = "s3_label"
    /\ UNCHANGED <<info, args, loop, mainvars>>

\* for (vit = finite_vertices_begin(); vit != finite_vertices_end(); ++vit)
\*   vit->info() = timeslice;
\* One iteration, or the end of the loop.  The iterator's order is the
\* container's; any order is allowed here.
SeededLabel ==
    /\ pc = "s3_label"
    /\ IF vertices \ DOMAIN info = {}
       THEN /\ pc' = "s3_assert_final"
            /\ info' = info
       ELSE /\ \E v \in vertices \ DOMAIN info :
                info' = [w \in DOMAIN info \cup {v} |->
                            IF w = v THEN Timeslice(v) ELSE info[w]]
            /\ pc' = "s3_label"
    /\ UNCHANGED <<vertices, cells, args, i, loop, mainvars>>

\* assert(S3->dimension() == 3); assert(S3->is_valid());
SeededAssertFinal ==
    /\ pc = "s3_assert_final"
    /\ pc' = IF /\ AssertPasses(dimension(vertices, cells) = 3)
                /\ AssertPasses(is_valid(vertices, cells))
             THEN "s3_done" ELSE "aborted"
    /\ UNCHANGED <<mesh, args, i, loop, mainvars>>

NextSeeded ==
    \/ SeededDivide
    \/ SeededInsert
    \/ SeededAssertSeed
    \/ SeededApex
    \/ SeededLabel
    \/ SeededAssertFinal

SpecSeeded == InitSeeded /\ [][NextSeeded]_vars

\* ------------------------------------------------------- main (cdt.cpp)

\* alpha is held in units of 1/AlphaUnit.
AlphaUnit == 10

Abs(n) == IF n < 0 THEN -n ELSE n

\* The comparison made non-strict.
M_TriangleInequalityViolated(d, a) == d = 3 /\ 2 * Abs(a) <= AlphaUnit

\* if (dimensions == 3 && std::abs(alpha) < 0.5)
TriangleInequalityViolated(d, a) == d = 3 /\ 2 * Abs(a) < AlphaUnit

InitMain ==
    /\ pc = "main_alpha"
    /\ MeshIdle /\ LoopIdle
    /\ i = 0
    /\ number_of_simplices = 0 /\ number_of_timeslices = 0 /\ ndebug = FALSE
    /\ topology \in {"SPHERICAL", "TOROIDAL"}
    /\ dimensions \in 0..MaxDim
    /\ alpha \in -MaxAlpha..MaxAlpha
    /\ rc = NotReturned
    /\ steps = <<>>
    /\ out = {}

\* Ensure Triangle inequalities hold ... return 1;
MainAlphaCheck ==
    /\ pc = "main_alpha"
    /\ IF TriangleInequalityViolated(dimensions, alpha)
       THEN /\ out' = out \cup {"Triangle inequalities violated ... Exiting."}
            /\ rc' = 1
            /\ pc' = "main_returned"
       ELSE /\ pc' = "main_switch"
            /\ UNCHANGED <<out, rc>>
    /\ UNCHANGED <<mesh, args, i, loop, topology, dimensions, alpha, steps>>

\* switch (topology) { ... }
MainSwitch ==
    /\ pc = "main_switch"
    /\ IF topology = "SPHERICAL"
       THEN IF dimensions = 3
            THEN /\ steps' = Append(steps, "make_S3_triangulation")
                 /\ out' = out
            ELSE /\ out' = out \cup
                        {"Currently, dimensions cannot be higher than 3."}
                 /\ steps' = steps
       ELSE /\ out' = out \cup {"make_T3_triangulation not implemented yet."}
            /\ steps' = steps
    /\ pc' = "main_report"
    /\ UNCHANGED <<mesh, args, i, loop, topology, dimensions, alpha, rc>>

\* std::cout << "Universe has been initialized ..." ...
MainReport ==
    /\ pc = "main_report"
    /\ steps' = Append(steps, "Universe has been initialized")
    /\ pc' = "main_edges"
    /\ UNCHANGED <<mesh, args, i, loop, topology, dimensions, alpha, rc, out>>

\* get_timelike_edges(Sphere3, &V2, &N1_SL);
MainGetTimelikeEdges ==
    /\ pc = "main_edges"
    /\ steps' = Append(steps, "get_timelike_edges")
    /\ pc' = "main_print"
    /\ UNCHANGED <<mesh, args, i, loop, topology, dimensions, alpha, rc, out>>

\* print_results(Sphere3, t);
MainPrintResults ==
    /\ pc = "main_print"
    /\ steps' = Append(steps, "print_results")
    /\ pc' = "main_write"
    /\ UNCHANGED <<mesh, args, i, loop, topology, dimensions, alpha, rc, out>>

\* write_file(Sphere3, topology, dimensions, ...);
MainWriteFile ==
    /\ pc = "main_write"
    /\ steps' = Append(steps, "write_file")
    /\ pc' = "main_return"
    /\ UNCHANGED <<mesh, args, i, loop, topology, dimensions, alpha, rc, out>>

\* return 0;
MainReturn ==
    /\ pc = "main_return"
    /\ rc' = 0
    /\ pc' = "main_returned"
    /\ UNCHANGED <<mesh, args, i, loop, topology, dimensions, alpha, steps, out>>

NextMain ==
    \/ MainAlphaCheck
    \/ MainSwitch
    \/ MainReport
    \/ MainGetTimelikeEdges
    \/ MainPrintResults
    \/ MainWriteFile
    \/ MainReturn

SpecMain == InitMain /\ [][NextMain]_vars

\* Any of the three routines.
Init == InitRandom \/ InitSeeded \/ InitMain
Next == NextRandom \/ NextSeeded \/ NextMain
Spec == Init /\ [][Next]_vars

\* ------------------------------------------------------------ properties

\* Sanity of the mesh model: no sampled point lies exactly on the sphere of
\* a finite cell (where the kernel's symbolic perturbation, not the geometry,
\* would decide), and every mesh the loop reaches is a Delaunay triangulation.
NoTies ==
    pc = "rnd_find_conflicts" =>
        /\ \A c \in cells : SideOfSphere(c, p) # 0
        /\ is_valid(vertices, cells)

\* Sanity: find_conflicts starts from the located cell, which is in conflict,
\* so it never reports an empty region for a point that is not a vertex.
ConflictsNeverEmpty ==
    pc = "rnd_filter" => ConflictSize(V) >= 1

\* Sanity: the asserted conditions hold whenever an assert is reached.
AssertsNeverFail ==
    /\ pc \in {"rnd_assert_seed", "rnd_assert_final", "s3_assert_seed",
               "s3_assert_final"} =>
          dimension(vertices, cells) = 3 /\ is_valid(vertices, cells)
    /\ pc # "aborted"

TheMesh == [vertices |-> vertices, cells |-> cells, info |-> info]

LaterSteps ==
    {"make_S3_triangulation", "Universe has been initialized",
     "get_timelike_edges", "print_results", "write_file"}

Executed == {steps[k] : k \in 1..Len(steps)}

\* C1: in main, a run with dimensions == 3 and |alpha| < 0.5 is rejected: once
\* the alpha check has run, main has returned 1 and no step (triangulation,
\* timelike-edge extraction, write_file) was or will be executed; a run with
\* dimensions == 3 and |alpha| >= 0.5 is never rejected by the alpha check
\* (no triangle-inequality diagnostic, no return value 1).
C1_AlphaPrecondition ==
    /\ (dimensions = 3 /\ 2 * Abs(alpha) < AlphaUnit) =>
          /\ Executed = {}
          /\ pc \in {"main_alpha", "main_returned"}
          /\ pc = "main_returned" => rc = 1
    /\ (dimensions = 3 /\ 2 * Abs(alpha) >= AlphaUnit) =>
          /\ rc # 1
          /\ "Triangle inequalities violated ... Exiting." \notin out
          /\ pc # "main_alpha" => pc # "main_returned" \/ rc = 0

\* A run with alpha = 0.3 in 3 dimensions has been rejected.
C1_Witness ==
    /\ pc = "main_returned" /\ rc = 1
    /\ dimensions = 3 /\ 10 * alpha = 3 * AlphaUnit
    /\ Executed = {}

\* C2 (as claimed): a run whose dimension is not 3, or whose topology is
\* toroidal, executes none of the later steps and, when main has returned,
\* has returned a nonzero status.
C2_ConfigurationErrorExits ==
    (pc \in {"main_alpha", "main_switch", "main_report", "main_edges",
             "main_print", "main_write", "main_return", "main_returned"}
       /\ (dimensions # 3 \/ topology = "TOROIDAL")) =>
        /\ Executed \cap LaterSteps = {}
        /\ pc = "main_returned" => rc # NotReturned /\ rc # 0

\* C3: in the random loop, for a sampled point that is not an existing
\* vertex, insert_in_hole has been invoked at the end of the iteration if and
\* only if the number of conflict cells is even; when it is odd the point is
\* discarded and vertices, cells and info are as they were when the iteration
\* began.
C3_ParityLaw ==
    (pc = "rnd_while" /\ p \notin before.vertices) =>
        /\ "find_conflicts" \in calls
        /\ ("insert_in_hole" \in calls) <=> (ConflictSize(V) % 2 = 0)
        /\ ConflictSize(V) % 2 = 0 => p \in vertices
        /\ ConflictSize(V) % 2 = 1 => TheMesh = before

\* A point with an odd conflict region has been discarded.
C3_Witness ==
    /\ pc = "rnd_while" /\ p \notin before.vertices
    /\ ConflictSize(V) % 2 = 1
    /\ "insert_in_hole" \notin calls
    /\ Cardinality(cells) > 1

\* C6 (as claimed): after the five seed insertions the mesh has exactly 2
\* finite cells, 5 finite vertices and 9 finite edges, and after the apex
\* (1,1,1) is inserted it has exactly 6 finite cells.
C6_SeededCounts ==
    /\ pc = "s3_assert_seed" =>
          /\ number_of_finite_cells(cells) = 2
          /\ number_of_vertices(vertices) = 5
          /\ number_of_finite_edges(cells) = 9
    /\ pc \in {"s3_label", "s3_assert_final", "s3_done"} =>
          number_of_finite_cells(cells) = 6

\* C7: when the sampled point equals an existing vertex (locate reports
\* VERTEX), neither find_conflicts nor insert_in_hole is run for it, and the
\* vertex count, the cell count and every vertex's info are the same at the
\* end of the iteration as at its start.
C7_ExistingVertexNoOp ==
    (pc = "rnd_while" /\ (lt = "VERTEX" \/ p \in before.vertices)) =>
        /\ calls = {"locate"}
        /\ number_of_vertices(vertices) = number_of_vertices(before.vertices)
        /\ number_of_finite_cells(cells) = number_of_finite_cells(before.cells)
        /\ info = before.info
        /\ TheMesh = before

\* A vertex inserted by an earlier iteration has been sampled again.
C7_Witness ==
    /\ pc = "rnd_while" /\ lt = "VERTEX"
    /\ p \in vertices /\ p # Pt(0, 0, 0)
    /\ calls = {"locate"}

\* C8 (as claimed): the random construction loop always terminates, even
\* when every sampled point is rejected or is a duplicate vertex.  Stated for
\* the targets that are not negative, which the unsigned comparison of the
\* loop condition does not affect.
C8_LoopTerminates ==
    number_of_simplices >= 0 => <>(pc \in {"rnd_done", "aborted"})

Floor(num, den) == num \div den

\* C9, in its states: when seeded construction completes, every finite vertex,
\* the apex included, carries info() = floor(z) (1,1,1,2,0,1 for the six points in
\* insertion order); no info() is assigned before all six points are inserted;
\* in its steps: an assigned info() is never changed by a later step.
C9_Inv ==
    /\ pc = "s3_done" =>
          /\ DOMAIN info = vertices
          /\ vertices = {SeededPoints[k] : k \in 1..5} \cup {ApexPoint}
          /\ \A v \in vertices : info[v] = Floor(v[3], Scale)
          /\ <<info[Pt(0, 0, 1)], info[Pt(2, 0, 1)], info[Pt(0, 2, 1)],
               info[Pt(0, 0, 2)], info[Pt(0, 0, 0)], info[Pt(1, 1, 1)]>>
                = <<1, 1, 1, 2, 0, 1>>
    /\ DOMAIN info # {} => i = 6 /\ Cardinality(vertices) = 6

C9_Stable ==
    \A v \in DOMAIN info : v \in DOMAIN info' /\ info'[v] = info[v]

\* C9: the labels at completion and the moment of labelling (C9_Inv) hold in
\* every state, and no step changes an assigned label (C9_Stable).
C9_SeededLabels == []C9_Inv /\ [][C9_Stable]_vars

\* Seeded construction has completed with all six vertices labelled.
C9_Witness ==
    /\ pc = "s3_done"
    /\ Cardinality(DOMAIN info) = 6
    /\ info[ApexPoint] = 1

====
